---- MODULE Spec2Model ----
(***************************************************************************)
(* git_info: a prompt segment rendered from `git status --porcelain=v2 -b`.*)
(* Text is modelled as a sequence of characters (one-character strings);   *)
(* a token is such a sequence, an Option is <<>> (None) or <<v>> (Some v), *)
(* and a Result is <<>> (Err, or a panic) or <<v>> (Ok v).                 *)
(***************************************************************************)
EXTENDS Integers, Sequences, FiniteSets, TLC

VARIABLES pc, git, repo, nlines, lastLine, out, hist

vars == <<pc, git, repo, nlines, lastLine, out, hist>>

\* Number of lines of the status report that one run parses.
MaxLines == 3

None == <<>>
Some(v) == <<v>>

(* ------------------------------ text ---------------------------------- *)

\* char::is_whitespace, on the characters of the model's alphabet
WhiteSpace == {" ", "\t"}

\* str::starts_with
starts_with(s, p) == Len(s) >= Len(p) /\ SubSeq(s, 1, Len(p)) = p

\* str::strip_prefix for a one-character prefix: Some(rest) or None
strip_prefix(s, c) == IF s # <<>> /\ s[1] = c THEN Some(Tail(s)) ELSE None

RECURSIVE split_from(_, _, _)
split_from(s, i, cur) ==
  LET flush == IF cur = <<>> THEN <<>> ELSE <<cur>>
  IN IF i > Len(s) THEN flush
     ELSE IF s[i] \in WhiteSpace THEN flush \o split_from(s, i + 1, <<>>)
     ELSE split_from(s, i + 1, Append(cur, s[i]))

\* str::split_whitespace, collected: the non-empty maximal runs of non-whitespace
split_whitespace(s) == split_from(s, 1, <<>>)

\* Iterator::next / nth on a collected iterator, as an Option
nth(seq, i) == IF i <= Len(seq) THEN Some(seq[i]) ELSE None

\* Option::unwrap_or
unwrap_or(opt, dflt) == IF opt = None THEN dflt ELSE opt[1]

(* --------------------------- u32 <-> text ------------------------------ *)

DigitChars == <<"0", "1", "2", "3", "4", "5", "6", "7", "8", "9">>

IsDigit(c) == \E d \in 1..10 : DigitChars[d] = c

DigitVal(c) == (CHOOSE d \in 1..10 : DigitChars[d] = c) - 1

\* u32::MAX = 4294967295, as its decimal digits
U32MaxDigits == <<"4", "2", "9", "4", "9", "6", "7", "2", "9", "5">>

RECURSIVE StripZeros(_)
StripZeros(ds) ==
  IF ds # <<>> /\ ds[1] = "0" THEN StripZeros(Tail(ds)) ELSE ds

RECURSIVE DigitsGreater(_, _)
\* a > b for two digit strings of the same length
DigitsGreater(a, b) ==
  IF a = <<>> THEN FALSE
  ELSE IF DigitVal(a[1]) # DigitVal(b[1]) THEN DigitVal(a[1]) > DigitVal(b[1])
  ELSE DigitsGreater(Tail(a), Tail(b))

\* the accumulation a*10 + d leaves the range of u32
OverflowsU32(ds) ==
  LET sig == StripZeros(ds)
  IN Len(sig) > Len(U32MaxDigits)
     \/ (Len(sig) = Len(U32MaxDigits) /\ DigitsGreater(sig, U32MaxDigits))

RECURSIVE DecimalValue(_)
DecimalValue(ds) ==
  IF ds = <<>> THEN 0
  ELSE 10 * DecimalValue(SubSeq(ds, 1, Len(ds) - 1)) + DigitVal(ds[Len(ds)])

\* variant: the digits are the whole text, a leading '+' is no sign
parse_digits_strict(s) == s

\* the digits that <u32 as FromStr>::from_str reads: an unsigned type takes
\* one optional leading '+', and never a '-'
parse_digits_unsigned(s) ==
  IF s # <<>> /\ s[1] = "+" THEN Tail(s) ELSE s

\* str::parse::<u32>: Ok(n) as <<n>>, Err as <<>>
parse_u32(s) ==
  LET ds == parse_digits_unsigned(s)
  IN IF ds = <<>> THEN <<>>
     ELSE IF \E i \in 1..Len(ds) : ~IsDigit(ds[i]) THEN <<>>
     ELSE IF OverflowsU32(ds) THEN <<>>
     ELSE <<DecimalValue(ds)>>

RECURSIVE to_string(_)
\* Display for u32
to_string(n) ==
  IF n < 10 THEN <<DigitChars[n + 1]>>
  ELSE to_string(n \div 10) \o <<DigitChars[(n % 10) + 1]>>

(* ----------------------------- RepoStatus ------------------------------ *)

\* RepoStatus::default()
DefaultRepo ==
  [branch_head |-> None, branch_oid |-> None, ahead |-> 0, behind |-> 0,
   staged |-> 0, unstaged |-> 0, untracked |-> 0]

KwOid == <<"b", "r", "a", "n", "c", "h", ".", "o", "i", "d">>
KwHead == <<"b", "r", "a", "n", "c", "h", ".", "h", "e", "a", "d">>
KwAb == <<"b", "r", "a", "n", "c", "h", ".", "a", "b">>
HeaderMarker == <<"#", " ">>
UntrackedMarker == <<"?", " ">>
IgnoredMarker == <<"!", " ">>
DetachedSentinel == <<"(", "d", "e", "t", "a", "c", "h", "e", "d", ")">>
DetachedLabel == <<"D", "E", "T", "A", "C", "H", "E", "D">>

RECURSIVE scan_ab(_, _, _)
\* the loop over the tokens of a branch.ab line, from token i on
scan_ab(r, words, i) ==
  IF i > Len(words) THEN r
  ELSE LET token == words[i]
           plus == strip_prefix(token, "+")
           minus == strip_prefix(token, "-")
       IN IF plus # None
            THEN scan_ab([r EXCEPT !.ahead = unwrap_or(parse_u32(plus[1]), 0)],
                         words, i + 1)
          ELSE IF minus # None
            THEN scan_ab([r EXCEPT !.behind = unwrap_or(parse_u32(minus[1]), 0)],
                         words, i + 1)
          ELSE scan_ab(r, words, i + 1)

\* variant: every branch.oid line starts the status afresh
parse_header_line_resets(r, line) ==
  LET words == split_whitespace(SubSeq(line, 3, Len(line)))
      kind == nth(words, 1)
      value == nth(words, 2)
  IN IF kind = Some(KwOid)
       THEN (IF value # None
               THEN [DefaultRepo EXCEPT !.branch_oid = Some(value[1]),
                                        !.branch_head = r.branch_head,
                                        !.ahead = r.ahead, !.behind = r.behind]
             ELSE r)
     ELSE IF kind = Some(KwHead)
       THEN (IF value # None THEN [r EXCEPT !.branch_head = Some(value[1])] ELSE r)
     ELSE IF kind = Some(KwAb)
       THEN scan_ab(r, words, 2)
     ELSE r

\* variant: a branch.oid or branch.head line without a value clears the field
parse_header_line_clears(r, line) ==
  LET words == split_whitespace(SubSeq(line, 3, Len(line)))
      kind == nth(words, 1)
      value == nth(words, 2)
  IN IF kind = Some(KwOid)
       THEN [r EXCEPT !.branch_oid = value]
     ELSE IF kind = Some(KwHead)
       THEN [r EXCEPT !.branch_head = value]
     ELSE IF kind = Some(KwAb)
       THEN scan_ab(r, words, 2)
     ELSE r

parse_header_line(r, line) ==
  LET words == split_whitespace(SubSeq(line, 3, Len(line)))
      kind == nth(words, 1)
      value == nth(words, 2)
  IN IF kind = Some(KwOid)
       THEN (IF value # None THEN [r EXCEPT !.branch_oid = Some(value[1])] ELSE r)
     ELSE IF kind = Some(KwHead)
       THEN (IF value # None THEN [r EXCEPT !.branch_head = Some(value[1])] ELSE r)
     ELSE IF kind = Some(KwAb)
       THEN scan_ab(r, words, 2)
     ELSE r

\* variant: the record type is not skipped, the first token is read as XY
parse_record_line_first_token(r, line) ==
  IF starts_with(line, UntrackedMarker)
    THEN [r EXCEPT !.untracked = @ + 1]
  ELSE IF starts_with(line, IgnoredMarker)
    THEN r
  ELSE LET parts == split_whitespace(line)
           xy == unwrap_or(nth(parts, 1), <<".", ".">>)
           x == unwrap_or(nth(xy, 1), ".")
           y == unwrap_or(nth(xy, 2), ".")
           r1 == IF x # "." /\ x # " " THEN [r EXCEPT !.staged = @ + 1] ELSE r
       IN IF y # "." /\ y # " " THEN [r1 EXCEPT !.unstaged = @ + 1] ELSE r1

\* variant: the markers are matched without their trailing space
parse_record_line_loose_marker(r, line) ==
  IF starts_with(line, <<"?">>)
    THEN [r EXCEPT !.untracked = @ + 1]
  ELSE IF starts_with(line, <<"!">>)
    THEN r
  ELSE LET parts == split_whitespace(line)
           xy == unwrap_or(nth(parts, 2), <<".", ".">>)
           x == unwrap_or(nth(xy, 1), ".")
           y == unwrap_or(nth(xy, 2), ".")
           r1 == IF x # "." /\ x # " " THEN [r EXCEPT !.staged = @ + 1] ELSE r
       IN IF y # "." /\ y # " " THEN [r1 EXCEPT !.unstaged = @ + 1] ELSE r1

parse_record_line(r, line) ==
  IF starts_with(line, UntrackedMarker)
    THEN [r EXCEPT !.untracked = @ + 1]
  ELSE IF starts_with(line, IgnoredMarker)
    THEN r
  ELSE LET parts == split_whitespace(line)
           xy == unwrap_or(nth(parts, 2), <<".", ".">>)
           x == unwrap_or(nth(xy, 1), ".")
           y == unwrap_or(nth(xy, 2), ".")
           r1 == IF x # "." /\ x # " " THEN [r EXCEPT !.staged = @ + 1] ELSE r
       IN IF y # "." /\ y # " " THEN [r1 EXCEPT !.unstaged = @ + 1] ELSE r1

(* ------------------------------ rendering ------------------------------ *)

\* length of the short commit hash, in bytes
ShortHashLen == 7

\* bytes of a character in UTF-8
Utf8Len(c) == IF c = "é" THEN 2 ELSE IF c \in {"↑", "↓"} THEN 3 ELSE 1

RECURSIVE byte_len(_)
byte_len(s) == IF s = <<>> THEN 0 ELSE Utf8Len(s[1]) + byte_len(Tail(s))

\* &h[..n]: Ok(prefix) when n is within h and on a character boundary,
\* a panic (<<>>) otherwise
slice_to(h, n) ==
  LET cuts == {k \in 0..Len(h) : byte_len(SubSeq(h, 1, k)) = n}
  IN IF cuts = {} THEN <<>>
     ELSE <<SubSeq(h, 1, CHOOSE k \in cuts : TRUE)>>

\* the branch label: Ok(label), or <<>> when the slice panics
branch_label(r) ==
  IF r.branch_head = None \/ r.branch_head = Some(DetachedSentinel)
    THEN (IF r.branch_oid = None THEN <<DetachedLabel>>
          ELSE slice_to(r.branch_oid[1], ShortHashLen))
  ELSE <<r.branch_head[1]>>

\* variant: the unstaged segment is written before the staged one
render_text_swapped(r, label) ==
  LET t0 == <<" ">> \o label
      t1 == IF r.ahead > 0 THEN t0 \o <<" ", "↑">> \o to_string(r.ahead) ELSE t0
      t2 == IF r.behind > 0 THEN t1 \o <<" ", "↓">> \o to_string(r.behind) ELSE t1
      t3 == IF r.unstaged > 0
              THEN t2 \o <<" ", "[", "+">> \o to_string(r.unstaged) \o <<"]">> ELSE t2
      t4 == IF r.staged > 0
              THEN t3 \o <<" ", "[", "!">> \o to_string(r.staged) \o <<"]">> ELSE t3
  IN IF r.untracked > 0
       THEN t4 \o <<" ", "[", "?">> \o to_string(r.untracked) \o <<"]">> ELSE t4

\* the text part, given the label
render_text(r, label) ==
  LET t0 == <<" ">> \o label
      t1 == IF r.ahead > 0 THEN t0 \o <<" ", "↑">> \o to_string(r.ahead) ELSE t0
      t2 == IF r.behind > 0 THEN t1 \o <<" ", "↓">> \o to_string(r.behind) ELSE t1
      t3 == IF r.staged > 0
              THEN t2 \o <<" ", "[", "!">> \o to_string(r.staged) \o <<"]">> ELSE t2
      t4 == IF r.unstaged > 0
              THEN t3 \o <<" ", "[", "+">> \o to_string(r.unstaged) \o <<"]">> ELSE t3
  IN IF r.untracked > 0
       THEN t4 \o <<" ", "[", "?">> \o to_string(r.untracked) \o <<"]">> ELSE t4

\* the colour escapes, each kept as one element
ColourOn == "ESC[38;2;255;255;255;48;2;6;150;154m"
ColourOff == "ESC[0m"

\* render_prompt: Ok(string), or <<>> when it panics
render_prompt(r) ==
  LET label == branch_label(r)
  IN IF label = <<>> THEN <<>>
     ELSE << <<ColourOn, " ">> \o render_text(r, label[1]) \o <<" ", ColourOff>> >>

(* --------------------------- the status report ------------------------- *)

Sp == <<" ">>
Tab == <<"\t">>
Hex10 == <<"a", "1", "b", "2", "c", "3", "d", "4", "e", "5">>
\* a full object id: 40 hexadecimal characters
Hex40 == Hex10 \o Hex10 \o Hex10 \o Hex10
TokMain == <<"m", "a", "i", "n">>
TokPath == <<"a">>
KwUpstream == <<"b", "r", "a", "n", "c", "h", ".", "u", "p", "s", "t", "r", "e", "a", "m">>

\* what may follow `# branch.oid`
OidTexts ==
  { <<>>,
    Sp \o Hex40,
    Sp \o Hex40 \o Sp \o TokMain,
    Sp \o <<"a", "b", "c">>,
    Sp \o <<"(", "i", "n", "i", "t", "i", "a", "l", ")">>,
    Sp \o <<"a", "b", "c", "d", "e", "é", "f", "0">>,
    Sp \o <<"a", "b", "c", "d", "e", "f", "é", "0">> }

\* what may follow `# branch.head`
HeadTexts == { <<>>, Sp, Sp \o TokMain, Sp \o DetachedSentinel }

\* what may follow `# branch.ab`
AbTexts ==
  { <<>>,
    Sp \o <<"+", "3">> \o Sp \o <<"-", "2">>,
    Sp \o <<"+", "0">> \o Sp \o <<"-", "0">>,
    Sp \o <<"+", "1", "2">>,
    Sp \o <<"-", "4">>,
    Sp \o <<"+">> \o Sp \o <<"-">>,
    Sp \o <<"+", "x">>,
    Sp \o <<"-", "1", "x">>,
    Sp \o <<"+", "+", "5">>,
    Sp \o <<"-", "+", "6">>,
    Sp \o <<"+", "-", "5">> \o Sp \o <<"-", "-", "2">>,
    Sp \o <<"+", "0", "0", "7">>,
    Sp \o <<"+", "4", "2", "9", "4", "9", "6", "7", "2", "9", "6">>,
    Sp \o <<"-", "9", "9", "9", "9", "9", "9", "9", "9", "9", "9", "9">>,
    Sp \o <<"=", "9">> \o Sp \o <<"8">>,
    Sp \o <<"+", "1">> \o Sp \o <<"+", "2">> \o Sp \o <<"-", "2">> \o Sp \o <<"-", "1">> }

HeaderLines ==
  {HeaderMarker \o KwOid \o t : t \in OidTexts}
  \cup {HeaderMarker \o KwHead \o t : t \in HeadTexts}
  \cup {HeaderMarker \o KwAb \o t : t \in AbTexts}
  \cup { HeaderMarker,
         HeaderMarker \o KwUpstream \o Sp \o TokMain,
         HeaderMarker \o Sp \o KwHead \o Sp \o TokMain,
         HeaderMarker \o <<"+", "3">> \o Sp \o <<"M", "M">> }

\* status codes XY of a change record, and shorter or longer second tokens
XyTexts ==
  { <<"M", ".">>, <<".", "M">>, <<"M", "M">>, <<".", ".">>, <<"U", "U">>,
    <<"M">>, <<".">>, <<"R", ".", "x">> }

RecordLines ==
  {<<"1">> \o Sp \o xy \o Sp \o TokPath : xy \in XyTexts}
  \cup { <<>>, Sp, <<"1">>, <<"1">> \o Sp, <<"?">>, <<"!">>,
         UntrackedMarker, IgnoredMarker,
         UntrackedMarker \o TokPath, IgnoredMarker \o TokPath,
         UntrackedMarker \o <<"M", "M">>, IgnoredMarker \o <<"M", "M">>,
         Sp \o UntrackedMarker \o <<"M", "M">>,
         <<"?", "x">> \o Sp \o <<".", "M">>,
         <<"!">> \o Tab \o <<"M", ".">>,
         <<"#", "x">> \o Sp \o <<"M", ".">>,
         <<"#">> \o Tab \o KwHead \o Sp \o TokMain,
         <<"2">> \o Tab \o <<"R", "M">> \o Sp \o TokPath \o Tab \o TokPath,
         <<"u">> \o Sp \o Sp \o <<"A", ".">> }

\* the lines `git status --porcelain=v2 -b` is taken to print
Lines == HeaderLines \cup RecordLines

(* ------------------------- what the input held -------------------------- *)

\* the tokens of a header line after its marker
HeaderTokens(line) == split_whitespace(SubSeq(line, 3, Len(line)))

IsChangeRecord(line) ==
  /\ ~starts_with(line, HeaderMarker)
  /\ ~starts_with(line, UntrackedMarker)
  /\ ~starts_with(line, IgnoredMarker)

\* the k-th character of the second whitespace-delimited token signals a change
SecondTokenChanged(line, k) ==
  LET toks == split_whitespace(line)
  IN Len(toks) >= 2 /\ Len(toks[2]) >= k /\ toks[2][k] \notin {".", " "}

CarriesValue(line, kw) ==
  /\ starts_with(line, HeaderMarker)
  /\ Len(HeaderTokens(line)) >= 2
  /\ HeaderTokens(line)[1] = kw

NoHistory == [q |-> 0, x |-> 0, y |-> 0, head |-> None, oid |-> None]

\* the summary of the lines read so far, extended by one line
Record(h, line) ==
  [q |-> h.q + (IF starts_with(line, UntrackedMarker) THEN 1 ELSE 0),
   x |-> h.x + (IF IsChangeRecord(line) /\ SecondTokenChanged(line, 1) THEN 1 ELSE 0),
   y |-> h.y + (IF IsChangeRecord(line) /\ SecondTokenChanged(line, 2) THEN 1 ELSE 0),
   head |-> IF CarriesValue(line, KwHead) THEN Some(HeaderTokens(line)[2]) ELSE h.head,
   oid |-> IF CarriesValue(line, KwOid) THEN Some(HeaderTokens(line)[2]) ELSE h.oid]

(* -------------------------------- main --------------------------------- *)

Init ==
  /\ pc = "start"
  /\ git = "none"
  /\ repo = DefaultRepo
  /\ nlines = 0
  /\ lastLine = None
  /\ out = <<>>
  /\ hist = NoHistory

\* Command::output() fails, or git exits non-zero: return without output
GitUnavailable ==
  /\ pc = "start"
  /\ pc' = "exit"
  /\ git' = "fail"
  /\ UNCHANGED <<repo, nlines, lastLine, out, hist>>

\* git ran and exited with success; RepoStatus::default() is ready
GitSucceeds ==
  /\ pc = "start"
  /\ pc' = "parse"
  /\ git' = "ok"
  /\ UNCHANGED <<repo, nlines, lastLine, out, hist>>

\* one turn of the loop over stdout.lines(), on a header line
ParseHeaderLine(line) ==
  /\ pc = "parse"
  /\ nlines < MaxLines
  /\ starts_with(line, HeaderMarker)
  /\ repo' = parse_header_line(repo, line)
  /\ nlines' = nlines + 1
  /\ lastLine' = Some(line)
  /\ hist' = Record(hist, line)
  /\ UNCHANGED <<pc, git, out>>

\* one turn of the loop, on any other line
ParseRecordLine(line) ==
  /\ pc = "parse"
  /\ nlines < MaxLines
  /\ ~starts_with(line, HeaderMarker)
  /\ repo' = parse_record_line(repo, line)
  /\ nlines' = nlines + 1
  /\ lastLine' = Some(line)
  /\ hist' = Record(hist, line)
  /\ UNCHANGED <<pc, git, out>>

\* the lines are exhausted: println!("{}", repo.render_prompt())
PrintPrompt ==
  /\ pc = "parse"
  /\ render_prompt(repo) # <<>>
  /\ out' = Append(out, render_prompt(repo)[1])
  /\ pc' = "exit"
  /\ UNCHANGED <<git, repo, nlines, lastLine, hist>>

\* the lines are exhausted and render_prompt panics: the process aborts
RenderPanics ==
  /\ pc = "parse"
  /\ render_prompt(repo) = <<>>
  /\ pc' = "panic"
  /\ UNCHANGED <<git, repo, nlines, lastLine, out, hist>>

Next ==
  \/ GitUnavailable
  \/ GitSucceeds
  \/ \E line \in Lines : ParseHeaderLine(line)
  \/ \E line \in Lines : ParseRecordLine(line)
  \/ PrintPrompt
  \/ RenderPanics

Spec == Init /\ [][Next]_vars

(* ------------------------------ properties ----------------------------- *)

\* a step of the loop has just applied the line lastLine'
LineApplied == nlines' = nlines + 1
AppliedLine == lastLine'[1]
AppliedRecord == LineApplied /\ ~starts_with(AppliedLine, HeaderMarker)
AppliedHeader == LineApplied /\ starts_with(AppliedLine, HeaderMarker)

ShortRecord(line) ==
  ~starts_with(line, HeaderMarker) /\ Len(split_whitespace(line)) < 2

\* C1: render_prompt returns a string for every RepoStatus that parsing can
\* produce, whatever the lines were.
C1_RenderTotal == pc = "parse" => render_prompt(repo) # <<>>

\* C2: a run ends normally, with exactly one line written when git ran with
\* success and with nothing written when it did not.
C2_OneLineOrNothing ==
  /\ pc # "panic"
  /\ (pc = "exit" /\ git = "ok" => Len(out) = 1)
  /\ (pc = "exit" /\ git = "fail" => out = <<>>)

\* C3 as stated: a record line with fewer than 2 tokens leaves staged,
\* unstaged and untracked unchanged.
C3_ShortRecordNoCount ==
  [][AppliedRecord /\ ShortRecord(AppliedLine)
       => /\ repo'.staged = repo.staged
          /\ repo'.unstaged = repo.unstaged
          /\ repo'.untracked = repo.untracked]_vars

\* C3 amended: a record line with fewer than 2 tokens leaves staged and
\* unstaged unchanged; it leaves untracked unchanged too unless it begins
\* with the untracked marker `? `, and then untracked grows by 1.
C3_ShortRecordAmended ==
  [][AppliedRecord /\ ShortRecord(AppliedLine)
       => /\ repo'.staged = repo.staged
          /\ repo'.unstaged = repo.unstaged
          /\ repo'.untracked =
               repo.untracked + (IF starts_with(AppliedLine, UntrackedMarker) THEN 1 ELSE 0)
          /\ repo'.branch_head = repo.branch_head
          /\ repo'.branch_oid = repo.branch_oid]_vars

C3_Witness ==
  /\ pc = "parse"
  /\ lastLine = Some(<<"1">>)
  /\ repo.staged = 1
  /\ repo.untracked = 1

\* C4 as stated: every counter, ahead and behind included, never decreases
\* from one line to the next.
C4_AllCountersMonotonic ==
  [][/\ repo'.ahead >= repo.ahead
     /\ repo'.behind >= repo.behind
     /\ repo'.staged >= repo.staged
     /\ repo'.unstaged >= repo.unstaged
     /\ repo'.untracked >= repo.untracked]_vars

\* C4 amended: staged, unstaged and untracked never decrease from one line to
\* the next, and each grows by at most 1 per line (ahead and behind are
\* overwritten by a branch.ab line and may decrease).
C4_FileCountersMonotonic ==
  [][/\ repo'.staged - repo.staged \in {0, 1}
     /\ repo'.unstaged - repo.unstaged \in {0, 1}
     /\ repo'.untracked - repo.untracked \in {0, 1}]_vars

C4_Witness ==
  /\ nlines = 3
  /\ repo.staged = 2
  /\ repo.unstaged = 1
  /\ lastLine = Some(<<"1">> \o Sp \o <<".", ".">> \o Sp \o TokPath)

HexChars ==
  {"0", "1", "2", "3", "4", "5", "6", "7", "8", "9",
   "a", "b", "c", "d", "e", "f", "A", "B", "C", "D", "E", "F"}

IsFullHash(tok) == Len(tok) = 40 /\ \A i \in 1..Len(tok) : tok[i] \in HexChars

\* C5: branch_oid is absent or a hexadecimal string of exactly 40 characters.
C5_OidIsFullHash ==
  repo.branch_oid = None \/ IsFullHash(repo.branch_oid[1])

ClaimedLabel(r) ==
  IF r.branch_head # None /\ r.branch_head # Some(DetachedSentinel)
    THEN r.branch_head[1]
  ELSE IF r.branch_oid # None /\ IsFullHash(r.branch_oid[1])
    THEN SubSeq(r.branch_oid[1], 1, 7)
  ELSE DetachedLabel

\* C6: the label is branch_head when usable, else the first 7 characters of a
\* 40-hex branch_oid, else the literal DETACHED.
C6_Label == pc = "parse" => branch_label(repo) = <<ClaimedLabel(repo)>>

Segment(pre, n, post) == IF n > 0 THEN pre \o to_string(n) \o post ELSE <<>>

ClaimedText(r, label) ==
  Sp \o label
     \o Segment(<<" ", "↑">>, r.ahead, <<>>)
     \o Segment(<<" ", "↓">>, r.behind, <<>>)
     \o Segment(<<" ", "[", "!">>, r.staged, <<"]">>)
     \o Segment(<<" ", "[", "+">>, r.unstaged, <<"]">>)
     \o Segment(<<" ", "[", "?">>, r.untracked, <<"]">>)

\* C7: the text is a space, the label, then the segments for ahead, behind,
\* staged, unstaged and untracked in that order, each present exactly when its
\* counter is positive; the default status gives ` DETACHED`, and a status
\* with only branch_head = main gives ` main`.
C7_Assembly ==
  LET label == branch_label(repo)
      text == render_text(repo, label[1])
  IN /\ label # <<>> => text = ClaimedText(repo, label[1])
     /\ repo = DefaultRepo
          => label = <<DetachedLabel>>
             /\ text = <<" ", "D", "E", "T", "A", "C", "H", "E", "D">>
     /\ repo = [DefaultRepo EXCEPT !.branch_head = Some(TokMain)]
          => text = <<" ", "m", "a", "i", "n">>
     /\ repo = [DefaultRepo EXCEPT !.ahead = 3, !.behind = 2]
          => text = <<" ", "D", "E", "T", "A", "C", "H", "E", "D",
                      " ", "↑", "3", " ", "↓", "2">>
     /\ out # <<>>
          => out = << <<ColourOn, " ">> \o ClaimedText(repo, label[1])
                        \o <<" ", ColourOff>> >>

C7_Witness ==
  /\ pc = "exit"
  /\ out # <<>>
  /\ repo.branch_head = None
  /\ repo.ahead = 3 /\ repo.behind = 2
  /\ repo.staged = 1 /\ repo.unstaged = 1 /\ repo.untracked = 1

\* C8: untracked counts the lines beginning with `? `, staged the change
\* records whose second token has a first character other than `.` or space,
\* unstaged those whose second token has such a second character; `! ` lines
\* and header lines count for nothing, and one line adds at most 1 to each.
C8_Counts ==
  /\ [](/\ repo.untracked = hist.q
        /\ repo.staged = hist.x
        /\ repo.unstaged = hist.y)
  /\ [][/\ repo'.staged - repo.staged \in {0, 1}
        /\ repo'.unstaged - repo.unstaged \in {0, 1}
        /\ (LineApplied /\ (starts_with(AppliedLine, IgnoredMarker)
                              \/ starts_with(AppliedLine, HeaderMarker))
              => /\ repo'.staged = repo.staged
                 /\ repo'.unstaged = repo.unstaged
                 /\ repo'.untracked = repo.untracked)]_vars

C8_Witness ==
  /\ nlines = 3
  /\ repo.staged = 1 /\ repo.unstaged = 1 /\ repo.untracked = 1
  /\ lastLine = Some(IgnoredMarker \o <<"M", "M">>)

\* the last token of a branch.ab line that begins with sign, if any
LastSigned(words, sign) ==
  LET idx == {i \in 2..Len(words) : words[i][1] = sign}
  IN IF idx = {} THEN None
     ELSE Some(words[CHOOSE i \in idx : \A j \in idx : j <= i])

\* a non-empty run of digits whose value fits the counter
DigitsInRange(s) ==
  /\ s # <<>>
  /\ \A i \in 1..Len(s) : IsDigit(s[i])
  /\ ~OverflowsU32(s)

\* the field after the line, reading the suffix as digits only
ClaimedAb(prev, words, sign) ==
  LET tok == LastSigned(words, sign)
  IN IF tok = None THEN prev
     ELSE IF DigitsInRange(Tail(tok[1])) THEN DecimalValue(Tail(tok[1]))
     ELSE 0

\* the field after the line, the suffix being digits after one optional `+`
AmendedAb(prev, words, sign) ==
  LET tok == LastSigned(words, sign)
      suffix == Tail(tok[1])
      digits == IF suffix # <<>> /\ suffix[1] = "+" THEN Tail(suffix) ELSE suffix
  IN IF tok = None THEN prev
     ELSE IF DigitsInRange(digits) THEN DecimalValue(digits)
     ELSE 0

IsAbLine(line) ==
  starts_with(line, HeaderMarker) /\ nth(HeaderTokens(line), 1) = Some(KwAb)

\* C9 as stated: a branch.ab line sets ahead (behind) from the last token
\* prefixed `+` (`-`): to the suffix's number, or to 0 when the suffix is
\* empty, holds a non-digit or is too large; other tokens are ignored and a
\* field without a token keeps its value.
C9_AheadBehind ==
  [][LineApplied /\ IsAbLine(AppliedLine)
       => /\ repo'.ahead = ClaimedAb(repo.ahead, HeaderTokens(AppliedLine), "+")
          /\ repo'.behind = ClaimedAb(repo.behind, HeaderTokens(AppliedLine), "-")]_vars

\* C9 amended: as C9, the suffix being read as an unsigned decimal number
\* that may itself begin with one `+` sign (`++5` sets ahead to 5, `-+6` sets
\* behind to 6).
C9_AheadBehindAmended ==
  [][LineApplied /\ IsAbLine(AppliedLine)
       => /\ repo'.ahead = AmendedAb(repo.ahead, HeaderTokens(AppliedLine), "+")
          /\ repo'.behind = AmendedAb(repo.behind, HeaderTokens(AppliedLine), "-")]_vars

C9_Witness ==
  /\ pc = "parse"
  /\ lastLine = Some(HeaderMarker \o KwAb \o Sp \o <<"+", "+", "5">>)
  /\ repo.ahead = 5
  /\ repo.behind = 2

\* a header line that assigns nothing: no kind, an unknown kind, or
\* branch.head / branch.oid without a value token
AssignsNothing(line) ==
  LET words == HeaderTokens(line)
  IN \/ words = <<>>
     \/ words[1] \notin {KwOid, KwHead, KwAb}
     \/ (words[1] \in {KwOid, KwHead} /\ Len(words) < 2)

\* C10: branch_head (branch_oid) is the second token of the last branch.head
\* (branch.oid) line that carries a value, absent if there is none; a header
\* line of that kind without a value, a header line of unknown kind and every
\* record line leave branch_head, branch_oid, ahead and behind unchanged; no
\* header line changes staged, unstaged or untracked.
C10_LastWriteWins ==
  /\ [](repo.branch_head = hist.head /\ repo.branch_oid = hist.oid)
  /\ [][/\ (AppliedRecord \/ (AppliedHeader /\ AssignsNothing(AppliedLine)))
             => /\ repo'.branch_head = repo.branch_head
                /\ repo'.branch_oid = repo.branch_oid
                /\ repo'.ahead = repo.ahead
                /\ repo'.behind = repo.behind
        /\ AppliedHeader
             => /\ repo'.staged = repo.staged
                /\ repo'.unstaged = repo.unstaged
                /\ repo'.untracked = repo.untracked]_vars

C10_Witness ==
  /\ nlines = 3
  /\ repo.branch_head = Some(TokMain)
  /\ repo.branch_oid = Some(Hex40)
  /\ lastLine = Some(HeaderMarker \o KwHead)

====
